---------------------------- MODULE Spec2Model ----------------------------
(***************************************************************************)
(* Artifact staging and work submission of the killerbeez BOINC manager    *)
(* (python/manager/lib/boinc.py): stage_file places byte content at a      *)
(* content-addressed path of the download tree, submit_job stages the seed *)
(* and the command line and runs bin/create_work.                          *)
(*                                                                         *)
(* Text (str and bytes) is a sequence of tokens, each token a TLA+ string  *)
(* standing for one character, one byte or one fixed literal of the code.  *)
(***************************************************************************)
EXTENDS Integers, Sequences, FiniteSets, TLC

(***************************************************************************)
(* Bounds of the model.                                                    *)
(***************************************************************************)
\* Concurrent callers of the manager library (web workers on the host).
NumProcs == 2
\* Calls of stage_file / submit_job made in one execution, all callers together.
MaxCalls == 2
\* Longest byte content staged.
MaxLen == 1
\* Most lines bin/create_work prints.
MaxLines == 2
\* Longest path text given to clean_download_path, in tokens.
MaxPathLen == 6
\* Runs of add_target.py in one execution, all processes together.
MaxRuns == 2
\* Most platforms named on one command line of add_target.py.
MaxPlatforms == 2

Procs == 1..NumProcs

(***************************************************************************)
(* Generic text helpers.                                                   *)
(***************************************************************************)
\* All sequences over S of length at most n.
SeqsUpTo(S, n) == UNION {[1..k -> S] : k \in 0..n}

\* sub occurs in s as a contiguous run (Python's `sub in s`).
Contains(s, sub) ==
    \E i \in 0..(Len(s) - Len(sub)) : SubSeq(s, i + 1, i + Len(sub)) = sub

RECURSIVE Concat(_)
\* The concatenation of a sequence of sequences.
Concat(ss) == IF ss = <<>> THEN <<>> ELSE Head(ss) \o Concat(Tail(ss))

\* An optional argument: None, or a supplied value.
None == [given |-> FALSE, val |-> <<>>]
Some(v) == [given |-> TRUE, val |-> v]
\* Python truthiness of an optional str/bytes argument: None and the empty
\* value are both falsy.
Truthy(opt) == opt.given /\ opt.val # <<>>

(***************************************************************************)
(* Inputs.                                                                 *)
(***************************************************************************)
Bytes == {"a", "c"}
Contents == SeqsUpTo(Bytes, MaxLen)
Prefixes == {"input", "cmdline"}

\* The value of a byte (its code, for the bytes of this model).
ByteVal(b) ==
    CASE b = "a" -> 97
      [] b = "c" -> 99
      [] b = "\\xc3" -> 195
      [] b = "\\xa9" -> 169
      [] OTHER -> 0

RECURSIVE ByteSum(_)
ByteSum(c) == IF c = <<>> THEN 0 ELSE ByteVal(Head(c)) + ByteSum(Tail(c))

\* hashlib.md5(contents).hexdigest(): a digest of fixed width, so distinct
\* contents can share one.  Here: the byte sum picks one of two digests.
Digests == <<"d41d8cd9", "0cc175b9">>
md5_hexdigest(contents) == Digests[(ByteSum(contents) % Len(Digests)) + 1]

\* boinc.py:61-63
filename_for_contents(prefix, contents) ==
    <<prefix, "_", md5_hexdigest(contents)>>

(***************************************************************************)
(* The placement oracle, bin/dir_hier_path, and dir_hier_path().           *)
(***************************************************************************)
BOINC_PROJECT_DIR == "/srv/boinc/project"
\* '/download/', the marker of line 16: a separator, the name, a separator.
Marker == <<"/", "download", "/">>
Whitespace == {"\n", " "}

\* The fan-out directory BOINC derives from a hash of the file NAME.
Fanout(filename) ==
    IF filename # <<>> /\ filename[Len(filename)] \in {"0cc175b9"}
    THEN "2c" ELSE "1f"

\* What bin/dir_hier_path prints for a filename when it succeeds.
dir_hier_path_output(filename) ==
    <<BOINC_PROJECT_DIR>> \o Marker \o <<Fanout(filename), "/">> \o filename
        \o <<"\n">>

RECURSIVE LStrip(_)
LStrip(s) == IF s # <<>> /\ Head(s) \in Whitespace THEN LStrip(Tail(s)) ELSE s
RECURSIVE RStrip(_)
RStrip(s) ==
    IF s # <<>> /\ s[Len(s)] \in Whitespace
    THEN RStrip(SubSeq(s, 1, Len(s) - 1)) ELSE s
\* bytes.strip()
Strip(s) == RStrip(LStrip(s))

\* boinc.py:20-29, for an oracle that exited zero having printed the path.
dir_hier_path(filename) == Strip(dir_hier_path_output(filename))

\* Outcomes of running the oracle.  It prints the path; it exits non-zero
\* and subprocess.check_output raises CalledProcessError; it cannot be
\* started and subprocess raises FileNotFoundError; it exits zero having
\* printed nothing, or having printed two lines.
OracleOutcomes == {"ok", "exit_nonzero", "unreachable", "empty", "two_lines"}
\* The outcomes in which check_output returns, and what it returns then.
OracleReturns == {"ok", "empty", "two_lines"}
check_output(filename, outcome) ==
    CASE outcome = "ok" -> dir_hier_path_output(filename)
      [] outcome = "empty" -> <<>>
      [] outcome = "two_lines" ->
            dir_hier_path_output(filename) \o dir_hier_path_output(filename)
\* What check_output raises in the other outcomes.
check_output_raises(filename, outcome) ==
    IF outcome = "exit_nonzero"
    THEN [kind |-> "error", cls |-> "CalledProcessError",
          msg |-> <<"bin/dir_hier_path">> \o filename, path |-> <<>>, id |-> -1]
    ELSE [kind |-> "error", cls |-> "FileNotFoundError",
          msg |-> <<"bin/dir_hier_path">>, path |-> <<>>, id |-> -1]

StagedFilenames ==
    {<<prefix, "_", Digests[i]>> : prefix \in Prefixes, i \in 1..Len(Digests)}
Paths == {dir_hier_path(f) : f \in StagedFilenames}

\* os.path.basename
PathSeparators == {"/"}
Basename(path) ==
    LET seps == {i \in 1..Len(path) : path[i] \in PathSeparators}
        last == IF seps = {} THEN 0
                ELSE CHOOSE i \in seps : \A j \in seps : j <= i
    IN  SubSeq(path, last + 1, Len(path))

(***************************************************************************)
(* The store: the files of the download tree.                              *)
(***************************************************************************)
NoFile == [exists |-> FALSE, content |-> <<>>, mode |-> ""]
\* The file at a path of the store f; at any other path there is no file and
\* no directory to create one in.
File(f, path) == IF path \in DOMAIN f THEN f[path] ELSE NoFile
\* The mode open(path, 'wb') gives a file it creates (0666 less the umask).
CreateMode == "0o644"
StagedMode == "0o755"

(***************************************************************************)
(* Results of a call.                                                      *)
(***************************************************************************)
NoResult == [kind |-> "none", cls |-> "", msg |-> <<>>, path |-> <<>>, id |-> -1]
Path(p) == [kind |-> "ok", cls |-> "", msg |-> <<>>, path |-> p, id |-> -1]
WorkUnitID(n) == [kind |-> "ok", cls |-> "", msg |-> <<>>, path |-> <<>>, id |-> n]
Exception(cls, msg) ==
    [kind |-> "error", cls |-> cls, msg |-> msg, path |-> <<>>, id |-> -1]

StageArgs(prefix, contents) ==
    [op |-> "stage_file", prefix |-> prefix, contents |-> contents,
     appname |-> "", cmdline |-> <<>>, seed_file |-> None, seed_contents |-> None,
     hash |-> "", path |-> <<>>]
SubmitArgs(appname, cmdline, seed_file, seed_contents) ==
    [op |-> "submit_job", prefix |-> "", contents |-> <<>>,
     appname |-> appname, cmdline |-> cmdline, seed_file |-> seed_file,
     seed_contents |-> seed_contents, hash |-> "", path |-> <<>>]
GetFilenameArgs(prefix, hash) ==
    [StageArgs(prefix, <<>>) EXCEPT !.op = "get_filename", !.hash = hash]
CleanDownloadPathArgs(path) ==
    [StageArgs("", <<>>) EXCEPT !.op = "clean_download_path", !.path = path]
NoCall == StageArgs("", <<>>)
NoFrame == [ctx |-> "", prefix |-> "", contents |-> <<>>, abspath |-> <<>>]
\* The frame of stage_file(prefix, contents) called from ctx.
Frame(ctx, prefix, contents) ==
    [ctx |-> ctx, prefix |-> prefix, contents |-> contents, abspath |-> <<>>]
NoLocals == [seed_file |-> <<>>, cmd_file |-> <<>>, create_work_args |-> <<>>,
             returncode |-> -1, output |-> <<>>]
\* What is kept of a completed call: its arguments, its result with no more
\* of the message than the fixed text it starts with, and what it did outside
\* the process.
Summary(c, res, eff) ==
    [call |-> c,
     result |-> [res EXCEPT !.msg = IF @ = <<>> THEN <<>> ELSE <<Head(@)>>],
     effects |-> eff]
NoPrev == Summary(NoCall, NoResult, <<>>)

(***************************************************************************)
(* server/add_target.py: the project files it edits.                       *)
(***************************************************************************)
\* args.app and the platforms a command line may name; the platforms that
\* have a skeleton under skel/ (skel/<platform> and skel/templates).
Apps == {"fuzz"}
Platforms == {"linux", "windows", "darwin"}
Skel == {"linux", "windows"}
PlatformLists == SeqsUpTo(Platforms, MaxPlatforms)

\* f'{name}_{platform}'
app_name(name, platform) == <<name, "_", platform>>
AppNames == {app_name(name, platform) : name \in Apps, platform \in Platforms}

\* An element of project.xml, and a daemon of config.xml.
Element(tag, name, user_friendly_name) ==
    [_name |-> tag, name |-> name, user_friendly_name |-> user_friendly_name]
Daemon(cmd, stem) ==
    [cmd |-> cmd, pid_file |-> stem \o <<".pid">>,
     lock_file |-> stem \o <<".lock">>, output |-> stem \o <<".log">>]
assimilator_cmd(an) == <<"killerbeez_assimilator.py -app ">> \o an
validator_cmd(an) == <<"sample_trivial_validator --app ">> \o an
\* The two files of a project before any target was added.
InitialProject == <<Element("platform", <<"linux">>, <<"Linux">>)>>
InitialConfig == <<Daemon(<<"feeder -d 3">>, <<"feeder">>)>>

\* The files of a platform skeleton, and what shutil.copy, the formatted
\* version.xml and shutil.copyfile leave at the destination.
SkelFiles == {<<"wrapper">>, <<"job", ".", "xml">>, <<"version", ".", "xml">>}
Made(content) == [content |-> content, writes |-> 1]
app_dir(an) == <<"apps", "/">> \o an
app_version_dir(an, platform) == app_dir(an) \o <<"/", "1", "/", platform>>
in_template_path(an) == <<"templates", "/">> \o an \o <<"_", "in">>
out_template_path(an) == <<"templates", "/">> \o an \o <<"_", "out">>

\* A run of main(): where it is, its arguments, its locals.
NoRun == [pc |-> "idle", app |-> "", platforms |-> <<>>, i |-> 0,
          project_file |-> <<>>, config_file |-> <<>>, locked |-> FALSE,
          status |-> ""]

VARIABLES
    fs,        \* the store: path -> file
    writes,    \* path -> number of write() calls completed on it
    pc,        \* caller -> where it is
    call,      \* caller -> the arguments of its current (or last) call
    frame,     \* caller -> the frame of stage_file: who called it, its arguments
    locals,    \* caller -> the locals of submit_job
    result,    \* caller -> what its last call returned or raised
    trace,     \* caller -> the stages its current (or last) call has entered
    effects,   \* caller -> what its current (or last) call did outside the
               \* process, in order: oracle runs, file operations, tool runs
    prev,      \* caller -> the call it completed just before the current (or
               \* last) one, when that call had the same arguments
    ncalls,    \* calls begun so far, all callers together
    invoked,   \* how often bin/create_work has been run
    run,         \* process -> its run of add_target.py
    project_xml, \* project.xml: its elements
    config_xml,  \* config.xml: its daemons
    tree,        \* apps/ and templates/: path -> what is there
    lockfile,    \* pid_<host>/add_target.lock: its inode (0: no file), and
                 \* how many inodes the file has had
    held,        \* process -> the inode it holds the lock on (0: none)
    nruns        \* runs begun so far, all processes together

\* The state of the manager library, and the state of the project files.
libVars == <<fs, writes, pc, call, frame, locals, result, trace, effects, prev,
             ncalls, invoked>>
provVars == <<run, project_xml, config_xml, tree, lockfile, held, nruns>>
vars == <<libVars, provVars>>

Init ==
    /\ fs = [path \in Paths |-> NoFile]
    /\ writes = [path \in Paths |-> 0]
    /\ pc = [p \in Procs |-> "idle"]
    /\ call = [p \in Procs |-> NoCall]
    /\ frame = [p \in Procs |-> NoFrame]
    /\ locals = [p \in Procs |-> NoLocals]
    /\ result = [p \in Procs |-> NoResult]
    /\ trace = [p \in Procs |-> <<>>]
    /\ effects = [p \in Procs |-> <<>>]
    /\ prev = [p \in Procs |-> NoPrev]
    /\ ncalls = 0
    /\ invoked = 0
    /\ run = [p \in Procs |-> NoRun]
    /\ project_xml = InitialProject
    /\ config_xml = InitialConfig
    /\ tree = <<>>
    /\ lockfile = [inode |-> 0, made |-> 0]
    /\ held = [p \in Procs |-> 0]
    /\ nruns = 0

\* What caller p, about to call with args, keeps of the call it has just
\* completed: its summary when args repeats the arguments of that call.
Repeated(p, args) ==
    IF result[p].kind # "none" /\ call[p] = args
    THEN Summary(call[p], result[p], effects[p]) ELSE NoPrev

\* The filename and the path of the stage_file frame of caller p.
FrameFilename(p) == filename_for_contents(frame[p].prefix, frame[p].contents)
FramePath(p) == frame[p].abspath

(***************************************************************************)
(* How a call ends.                                                        *)
(***************************************************************************)
\* The call of caller p ends with res, having made the file operations eff.
Finish(p, res, eff) ==
    /\ pc' = [pc EXCEPT ![p] = "idle"]
    /\ result' = [result EXCEPT ![p] = res]
    /\ effects' = [effects EXCEPT ![p] = eff]
    /\ UNCHANGED <<call, frame, locals, trace, prev, ncalls>>

\* stage_file returns path to its caller: the top level, or submit_job at
\* line 72 (the seed) or line 78 (the command line).
stage_file_return(p, path, eff) ==
    CASE frame[p].ctx = "top" -> Finish(p, Path(path), eff)
      [] frame[p].ctx = "seed" ->
            /\ locals' = [locals EXCEPT ![p].seed_file = path]
            /\ pc' = [pc EXCEPT ![p] = "sj_cmdline"]
            /\ effects' = [effects EXCEPT ![p] = eff]
            /\ UNCHANGED <<call, frame, result, trace, prev, ncalls>>
      [] frame[p].ctx = "cmdline" ->
            /\ locals' = [locals EXCEPT ![p].cmd_file = Basename(path)]
            /\ pc' = [pc EXCEPT ![p] = "sj_invoke"]
            /\ trace' = [trace EXCEPT ![p] = Append(@, "InvokeTool")]
            /\ effects' = [effects EXCEPT ![p] = eff]
            /\ UNCHANGED <<call, frame, result, prev, ncalls>>

(***************************************************************************)
(* stage_file, boinc.py:42-56, one action per step that touches the store. *)
(***************************************************************************)
\* A caller calls stage_file(prefix, contents).
call_stage_file(p) ==
    /\ pc[p] = "idle"
    /\ UNCHANGED provVars
    /\ ncalls < MaxCalls
    /\ ncalls' = ncalls + 1
    /\ \E prefix \in Prefixes, contents \in Contents :
          /\ call' = [call EXCEPT ![p] = StageArgs(prefix, contents)]
          /\ prev' = [prev EXCEPT ![p] =
                         Repeated(p, StageArgs(prefix, contents))]
          /\ frame' = [frame EXCEPT ![p] = Frame("top", prefix, contents)]
    /\ pc' = [pc EXCEPT ![p] = "sf_resolve"]
    /\ result' = [result EXCEPT ![p] = NoResult]
    /\ trace' = [trace EXCEPT ![p] = <<>>]
    /\ effects' = [effects EXCEPT ![p] = <<>>]
    /\ locals' = [locals EXCEPT ![p] = NoLocals]
    /\ UNCHANGED <<fs, writes, invoked>>

\* Lines 43-44: the filename, and the oracle's answer for it.  A failed
\* oracle run raises out of stage_file and out of its caller.
stage_file_resolve(p) ==
    /\ pc[p] = "sf_resolve"
    /\ UNCHANGED provVars
    /\ \E outcome \in OracleOutcomes :
          IF outcome \in OracleReturns
          THEN /\ frame' = [frame EXCEPT ![p].abspath =
                               Strip(check_output(FrameFilename(p), outcome))]
               /\ pc' = [pc EXCEPT ![p] = "sf_exists"]
               /\ effects' = [effects EXCEPT ![p] = Append(@, "dir_hier_path")]
               /\ UNCHANGED <<call, locals, result, trace, prev, ncalls>>
          ELSE /\ Finish(p, check_output_raises(FrameFilename(p), outcome),
                         Append(effects[p], "dir_hier_path"))
    /\ UNCHANGED <<fs, writes, invoked>>

\* Line 45 with the test lost: the file is written whether or not it exists.
stage_file_exists_always_absent(p) ==
    /\ pc[p] = "sf_exists"
    /\ UNCHANGED provVars
    /\ pc' = [pc EXCEPT ![p] = "sf_open"]
    /\ effects' = [effects EXCEPT ![p] = Append(@, "exists:False")]
    /\ UNCHANGED <<fs, writes, call, frame, locals, result, trace, prev,
                   ncalls, invoked>>

\* Line 45: os.path.exists(abspath).
stage_file_exists(p) ==
    /\ pc[p] = "sf_exists"
    /\ UNCHANGED provVars
    /\ pc' = [pc EXCEPT ![p] =
                 IF File(fs, FramePath(p)).exists THEN "sf_read" ELSE "sf_open"]
    /\ effects' = [effects EXCEPT ![p] =
                      Append(@, IF File(fs, FramePath(p)).exists
                                THEN "exists:True" ELSE "exists:False")]
    /\ UNCHANGED <<fs, writes, call, frame, locals, result, trace, prev,
                   ncalls, invoked>>

\* Lines 46-50 with the comparison lost: whatever the file holds, the path
\* is returned.
stage_file_read_no_compare(p) ==
    /\ pc[p] = "sf_read"
    /\ UNCHANGED provVars
    /\ stage_file_return(p, FramePath(p), Append(effects[p], "read"))
    /\ UNCHANGED <<fs, writes, invoked>>

\* Lines 46-50 and 56: read the existing file back and compare.
stage_file_read(p) ==
    /\ pc[p] = "sf_read"
    /\ UNCHANGED provVars
    /\ IF fs[FramePath(p)].content # frame[p].contents
       THEN Finish(p, Exception("InternalError",
                                <<"Attempted to stage ">> \o FrameFilename(p)
                                    \o <<" with differing contents">>),
                   Append(effects[p], "read"))
       ELSE stage_file_return(p, FramePath(p), Append(effects[p], "read"))
    /\ UNCHANGED <<fs, writes, invoked>>

\* Line 53: open(abspath, 'wb') creates the file, or truncates the one that
\* has appeared since line 45; nothing is written yet.  A path the oracle
\* did not print as one line names no directory of the store, and open
\* raises.
stage_file_open(p) ==
    /\ pc[p] = "sf_open"
    /\ UNCHANGED provVars
    /\ IF FramePath(p) \in DOMAIN fs
       THEN /\ fs' = [fs EXCEPT ![FramePath(p)] =
                         [exists |-> TRUE, content |-> <<>>,
                          mode |-> IF @.exists THEN @.mode ELSE CreateMode]]
            /\ pc' = [pc EXCEPT ![p] = "sf_write"]
            /\ effects' = [effects EXCEPT ![p] = Append(@, "open")]
            /\ UNCHANGED <<call, frame, locals, result, trace, prev, ncalls>>
       ELSE /\ Finish(p, Exception("FileNotFoundError",
                            <<"[Errno 2] No such file or directory: ">>
                                \o FramePath(p)),
                      Append(effects[p], "open:FileNotFoundError"))
            /\ UNCHANGED fs
    /\ UNCHANGED <<writes, invoked>>

\* Line 54 had the file been found by its prefix alone: the contents reach
\* every file of the prefix that is there.
stage_file_write_by_prefix(p) ==
    /\ pc[p] = "sf_write"
    /\ UNCHANGED provVars
    /\ fs' = [path \in DOMAIN fs |->
                 IF fs[path].exists /\ Contains(path, <<"/", frame[p].prefix, "_">>)
                 THEN [fs[path] EXCEPT !.content = frame[p].contents]
                 ELSE fs[path]]
    /\ writes' = [writes EXCEPT ![FramePath(p)] = @ + 1]
    /\ pc' = [pc EXCEPT ![p] = "sf_chmod"]
    /\ effects' = [effects EXCEPT ![p] = Append(@, "write")]
    /\ UNCHANGED <<call, frame, locals, result, trace, prev, ncalls, invoked>>

\* Line 54 and the end of the with block: the contents reach the file.
stage_file_write(p) ==
    /\ pc[p] = "sf_write"
    /\ UNCHANGED provVars
    /\ fs' = [fs EXCEPT ![FramePath(p)].content = frame[p].contents]
    /\ writes' = [writes EXCEPT ![FramePath(p)] = @ + 1]
    /\ pc' = [pc EXCEPT ![p] = "sf_chmod"]
    /\ effects' = [effects EXCEPT ![p] = Append(@, "write")]
    /\ UNCHANGED <<call, frame, locals, result, trace, prev, ncalls, invoked>>

\* Lines 55-56: os.chmod(abspath, 0o755), and the path is returned.
stage_file_chmod(p) ==
    /\ pc[p] = "sf_chmod"
    /\ UNCHANGED provVars
    /\ fs' = [fs EXCEPT ![FramePath(p)].mode = StagedMode]
    /\ stage_file_return(p, FramePath(p), Append(effects[p], "chmod"))
    /\ UNCHANGED <<writes, invoked>>

\* One step of stage_file by caller p.
stage_file(p) ==
    \/ stage_file_resolve(p)
    \/ stage_file_exists(p)
    \/ stage_file_read(p)
    \/ stage_file_open(p)
    \/ stage_file_write(p)
    \/ stage_file_chmod(p)

(***************************************************************************)
(* bin/create_work and the text of its output.                             *)
(***************************************************************************)
\* The two literals of the pattern at line 90, each one token.
CreatedWorkunit == "created workunit; "
CommaID == ", ID "
Digits == {"0", "1", "2", "3", "4", "5", "6", "7", "8", "9"}
DigitVal(d) ==
    CASE d = "0" -> 0 [] d = "1" -> 1 [] d = "2" -> 2 [] d = "3" -> 3
      [] d = "4" -> 4 [] d = "5" -> 5 [] d = "6" -> 6 [] d = "7" -> 7
      [] d = "8" -> 8 [] d = "9" -> 9

\* Lines bin/create_work may print ("x" is any other character): the line
\* of workunit 42; a line that names two ids, with more text after them; a
\* line that holds the pattern, but not at its start.
Line42 == <<CreatedWorkunit, "x", "x", CommaID, "4", "2">>
Line7 == <<CreatedWorkunit, CommaID, "1", CommaID, "7", "x", CommaID>>
LineNone == <<"x", CreatedWorkunit, CommaID, "5", CommaID>>
ToolLines == {Line42, Line7, LineNone}

\* The combined stdout and stderr of one run: up to MaxLines lines, each
\* ended by a newline.
ToolOutputs ==
    {Concat([i \in 1..Len(ls) |-> ls[i] \o <<"\n">>]) :
        ls \in SeqsUpTo(ToolLines, MaxLines)}
ExitCodes == {0, 1}

RECURSIVE splitlines(_)
\* bytes.splitlines()
splitlines(s) ==
    IF s = <<>> THEN <<>>
    ELSE LET nl == {i \in 1..Len(s) : s[i] = "\n"}
         IN  IF nl = {} THEN <<s>>
             ELSE LET i == CHOOSE k \in nl : \A j \in nl : k <= j
                  IN  <<SubSeq(s, 1, i - 1)>>
                          \o splitlines(SubSeq(s, i + 1, Len(s)))

\* Where `, ID ` may stand in line for the pattern to match: after the
\* leading literal and before a digit.
MatchPoints(line) ==
    {i \in 2..(Len(line) - 1) : line[i] = CommaID /\ line[i + 1] \in Digits}

\* re.match(rb'created workunit; .*, ID ([0-9]+)', line) is not None: the
\* pattern is anchored at the start of the line only.
re_match(line) ==
    /\ line # <<>>
    /\ line[1] = CreatedWorkunit
    /\ MatchPoints(line) # {}

RECURSIVE DigitRun(_, _)
\* The digits of line from position i on.
DigitRun(line, i) ==
    IF i <= Len(line) /\ line[i] \in Digits
    THEN <<line[i]>> \o DigitRun(line, i + 1) ELSE <<>>

\* match[1]: `.*` is greedy, so the group follows the last `, ID ` that a
\* digit follows, and takes every digit there.
match_group(line) ==
    LET i == CHOOSE k \in MatchPoints(line) : \A j \in MatchPoints(line) : j <= k
    IN  DigitRun(line, i + 1)

RECURSIVE int(_)
\* int(digits)
int(ds) ==
    IF ds = <<>> THEN 0
    ELSE 10 * int(SubSeq(ds, 1, Len(ds) - 1)) + DigitVal(ds[Len(ds)])

\* repr() of a bytes value, which is what an f-string prints for it.
repr(bs) ==
    <<"b'">> \o [i \in 1..Len(bs) |-> IF bs[i] = "\n" THEN "\\n" ELSE bs[i]]
        \o <<"'">>

\* str.encode('utf8')
EncodeChar(ch) == IF ch = "é" THEN <<"\\xc3", "\\xa9">> ELSE <<ch>>
encode_utf8(str) == Concat([i \in 1..Len(str) |-> EncodeChar(str[i])])

Appnames == {"myapp"}
Cmdlines == {<<"a">>, <<"é">>}
SeedFiles ==
    {None, Some(<<>>),
     Some(<<BOINC_PROJECT_DIR>> \o Marker \o <<"1f", "/", "seed">>)}
SeedContents == {None} \cup {Some(c) : c \in Contents}

(***************************************************************************)
(* submit_job, boinc.py:66-93.                                             *)
(***************************************************************************)
\* A caller calls submit_job(appname, cmdline, seed_file, seed_contents).
call_submit_job(p) ==
    /\ pc[p] = "idle"
    /\ UNCHANGED provVars
    /\ ncalls < MaxCalls
    /\ ncalls' = ncalls + 1
    /\ \E appname \in Appnames, cmdline \in Cmdlines,
          seed_file \in SeedFiles, seed_contents \in SeedContents :
          LET args == SubmitArgs(appname, cmdline, seed_file, seed_contents)
          IN  /\ call' = [call EXCEPT ![p] = args]
              /\ prev' = [prev EXCEPT ![p] = Repeated(p, args)]
    /\ pc' = [pc EXCEPT ![p] = "sj_validate"]
    /\ result' = [result EXCEPT ![p] = NoResult]
    /\ trace' = [trace EXCEPT ![p] = <<"ValidateSeed">>]
    /\ effects' = [effects EXCEPT ![p] = <<>>]
    /\ locals' = [locals EXCEPT ![p] = NoLocals]
    /\ frame' = [frame EXCEPT ![p] = NoFrame]
    /\ UNCHANGED <<fs, writes, invoked>>

\* Lines 67-74: which seed form was given.
submit_job_validate(p) ==
    /\ pc[p] = "sj_validate"
    /\ UNCHANGED provVars
    /\ LET seed_file == call[p].seed_file
           seed_contents == call[p].seed_contents
       IN  IF Truthy(seed_file) /\ Truthy(seed_contents)
           THEN Finish(p, Exception("InternalError",
                    <<"Only one of seed_file and seed_contents can be specified">>),
                    effects[p])
           ELSE IF Truthy(seed_contents)
           THEN /\ frame' = [frame EXCEPT ![p] =
                                Frame("seed", "input", seed_contents.val)]
                /\ pc' = [pc EXCEPT ![p] = "sf_resolve"]
                /\ trace' = [trace EXCEPT ![p] = Append(@, "StageSeed")]
                /\ UNCHANGED <<call, locals, result, effects, prev, ncalls>>
           ELSE IF ~Truthy(seed_file)
           THEN Finish(p, Exception("InternalError", <<"No seed specified">>),
                       effects[p])
           ELSE /\ locals' = [locals EXCEPT ![p].seed_file = seed_file.val]
                /\ pc' = [pc EXCEPT ![p] = "sj_cmdline"]
                /\ UNCHANGED <<call, frame, result, trace, effects, prev, ncalls>>
    /\ UNCHANGED <<fs, writes, invoked>>

\* Lines 77-78: the command line is encoded and staged.
submit_job_cmdline(p) ==
    /\ pc[p] = "sj_cmdline"
    /\ UNCHANGED provVars
    /\ frame' = [frame EXCEPT ![p] =
                    Frame("cmdline", "cmdline", encode_utf8(call[p].cmdline))]
    /\ pc' = [pc EXCEPT ![p] = "sf_resolve"]
    /\ trace' = [trace EXCEPT ![p] = Append(@, "StageCmdline")]
    /\ UNCHANGED <<fs, writes, call, locals, result, effects, prev, ncalls,
                   invoked>>

\* Lines 80-81: the argument list of the tool, one element after the other.
create_work_args(p) ==
    << <<"bin/create_work">>, <<"--appname">>, <<call[p].appname>>,
       <<"--verbose">>, locals[p].seed_file, locals[p].cmd_file >>

\* Lines 80-87 with the exit code ignored (subprocess.run without check):
\* the output is parsed whatever the tool returned.
submit_job_invoke_unchecked(p) ==
    /\ pc[p] = "sj_invoke"
    /\ UNCHANGED provVars
    /\ invoked' = invoked + 1
    /\ \E code \in ExitCodes, output \in ToolOutputs :
          locals' = [locals EXCEPT ![p].create_work_args = create_work_args(p),
                                   ![p].returncode = code,
                                   ![p].output = output]
    /\ pc' = [pc EXCEPT ![p] = "sj_parse"]
    /\ trace' = [trace EXCEPT ![p] = Append(@, "ParseOutput")]
    /\ effects' = [effects EXCEPT ![p] = Append(@, "create_work")]
    /\ UNCHANGED <<fs, writes, call, frame, result, prev, ncalls>>

\* Lines 80-87 with a retry: after a non-zero exit the tool is run again.
submit_job_invoke_retry(p) ==
    /\ pc[p] = "sj_invoke"
    /\ UNCHANGED provVars
    /\ invoked' = invoked + 1
    /\ \E code \in ExitCodes, output \in ToolOutputs :
          /\ locals' = [locals EXCEPT ![p].create_work_args = create_work_args(p),
                                       ![p].returncode = code,
                                       ![p].output = output]
          /\ IF code # 0
             THEN UNCHANGED <<pc, trace>>
             ELSE /\ pc' = [pc EXCEPT ![p] = "sj_parse"]
                  /\ trace' = [trace EXCEPT ![p] = Append(@, "ParseOutput")]
    /\ effects' = [effects EXCEPT ![p] = Append(@, "create_work")]
    /\ UNCHANGED <<fs, writes, call, frame, result, prev, ncalls>>

\* Lines 80-87 with a memory of the last submission: a call that repeats a
\* successful one returns its id again and does not run the tool.
submit_job_invoke_deduplicated(p) ==
    /\ pc[p] = "sj_invoke"
    /\ UNCHANGED provVars
    /\ IF prev[p].call = call[p] /\ prev[p].result.kind = "ok"
       THEN /\ Finish(p, WorkUnitID(prev[p].result.id), effects[p])
            /\ UNCHANGED invoked
       ELSE /\ invoked' = invoked + 1
            /\ \E output \in ToolOutputs :
                  locals' = [locals EXCEPT
                                ![p].create_work_args = create_work_args(p),
                                ![p].returncode = 0,
                                ![p].output = output]
            /\ pc' = [pc EXCEPT ![p] = "sj_parse"]
            /\ trace' = [trace EXCEPT ![p] = Append(@, "ParseOutput")]
            /\ effects' = [effects EXCEPT ![p] = Append(@, "create_work")]
            /\ UNCHANGED <<call, frame, result, prev, ncalls>>
    /\ UNCHANGED <<fs, writes>>

\* Lines 80-87: bin/create_work runs to its end; a non-zero exit raises.
submit_job_invoke(p) ==
    /\ pc[p] = "sj_invoke"
    /\ UNCHANGED provVars
    /\ invoked' = invoked + 1
    /\ \E code \in ExitCodes, output \in ToolOutputs :
          /\ locals' = [locals EXCEPT ![p].create_work_args = create_work_args(p),
                                       ![p].returncode = code,
                                       ![p].output = output]
          /\ IF code # 0
             THEN /\ pc' = [pc EXCEPT ![p] = "idle"]
                  /\ result' = [result EXCEPT ![p] =
                        Exception("BoincError",
                            <<"create_work returned error: ">> \o repr(output))]
                  /\ UNCHANGED trace
             ELSE /\ pc' = [pc EXCEPT ![p] = "sj_parse"]
                  /\ trace' = [trace EXCEPT ![p] = Append(@, "ParseOutput")]
                  /\ UNCHANGED result
    /\ effects' = [effects EXCEPT ![p] = Append(@, "create_work")]
    /\ UNCHANGED <<call, frame, prev, ncalls>>
    /\ UNCHANGED <<fs, writes>>

RECURSIVE last_match(_)
\* Lines 89-91 with the return lost from the loop: the last match stands.
last_match(lines) ==
    IF lines = <<>> THEN <<>>
    ELSE IF last_match(Tail(lines)) # <<>> THEN last_match(Tail(lines))
    ELSE IF re_match(Head(lines)) THEN <<int(match_group(Head(lines)))>>
    ELSE <<>>

RECURSIVE first_match(_)
\* Lines 89-91: the loop over the lines, left at the first line that matches.
first_match(lines) ==
    IF lines = <<>> THEN <<>>
    ELSE IF re_match(Head(lines)) THEN <<int(match_group(Head(lines)))>>
    ELSE first_match(Tail(lines))

\* Lines 89-93 with the error of line 87 raised at line 93 too.
submit_job_parse_same_error(p) ==
    /\ pc[p] = "sj_parse"
    /\ UNCHANGED provVars
    /\ LET found == first_match(splitlines(locals[p].output))
       IN  IF found # <<>>
           THEN Finish(p, WorkUnitID(found[1]), effects[p])
           ELSE Finish(p, Exception("BoincError",
                           <<"create_work returned error: ">>
                               \o repr(locals[p].output)),
                       effects[p])
    /\ UNCHANGED <<fs, writes, invoked>>

\* Lines 89-93: the id of the first matching line, or the error.
submit_job_parse(p) ==
    /\ pc[p] = "sj_parse"
    /\ UNCHANGED provVars
    /\ LET found == first_match(splitlines(locals[p].output))
       IN  IF found # <<>>
           THEN Finish(p, WorkUnitID(found[1]), effects[p])
           ELSE Finish(p, Exception("BoincError",
                           <<"Could not find ID in create_work output: ">>
                               \o repr(locals[p].output)),
                       effects[p])
    /\ UNCHANGED <<fs, writes, invoked>>

\* One step of submit_job by caller p, the steps of the stage_file calls it
\* makes apart.
submit_job(p) ==
    \/ submit_job_validate(p)
    \/ submit_job_cmdline(p)
    \/ submit_job_invoke(p)
    \/ submit_job_parse(p)

(***************************************************************************)
(* get_filename, boinc.py:58-59.                                           *)
(***************************************************************************)
\* The digests a caller may know: those of the contents, and one of none.
Hashes == {Digests[i] : i \in 1..Len(Digests)} \cup {"ffffffff"}

\* A caller calls get_filename(prefix, hash).
call_get_filename(p) ==
    /\ pc[p] = "idle"
    /\ UNCHANGED provVars
    /\ ncalls < MaxCalls
    /\ ncalls' = ncalls + 1
    /\ \E prefix \in Prefixes, hash \in Hashes :
          /\ call' = [call EXCEPT ![p] = GetFilenameArgs(prefix, hash)]
          /\ prev' = [prev EXCEPT ![p] =
                         Repeated(p, GetFilenameArgs(prefix, hash))]
    /\ pc' = [pc EXCEPT ![p] = "gf_resolve"]
    /\ result' = [result EXCEPT ![p] = NoResult]
    /\ trace' = [trace EXCEPT ![p] = <<>>]
    /\ effects' = [effects EXCEPT ![p] = <<>>]
    /\ locals' = [locals EXCEPT ![p] = NoLocals]
    /\ frame' = [frame EXCEPT ![p] = NoFrame]
    /\ UNCHANGED <<fs, writes, invoked>>

\* Line 59 had it built the name only: f'{prefix}_{hash}' is returned and
\* the oracle is not run.
get_filename_name_only(p) ==
    /\ pc[p] = "gf_resolve"
    /\ UNCHANGED provVars
    /\ Finish(p, Path(<<call[p].prefix, "_", call[p].hash>>), effects[p])
    /\ UNCHANGED <<fs, writes, invoked>>

\* Line 59: dir_hier_path(f'{prefix}_{hash}') is returned, or raises.
get_filename(p) ==
    /\ pc[p] = "gf_resolve"
    /\ UNCHANGED provVars
    /\ LET filename == <<call[p].prefix, "_", call[p].hash>>
       IN  \E outcome \in OracleOutcomes :
              IF outcome \in OracleReturns
              THEN Finish(p, Path(Strip(check_output(filename, outcome))),
                          Append(effects[p], "dir_hier_path"))
              ELSE Finish(p, check_output_raises(filename, outcome),
                          Append(effects[p], "dir_hier_path"))
    /\ UNCHANGED <<fs, writes, invoked>>

(***************************************************************************)
(* clean_download_path, boinc.py:10-17.                                    *)
(***************************************************************************)
\* Where sep stands in s.
Occurrences(s, sep) ==
    {i \in 1..(Len(s) - Len(sep) + 1) : SubSeq(s, i, i + Len(sep) - 1) = sep}

\* str.partition(sep): s split at the first sep.
partition(s, sep) ==
    IF Occurrences(s, sep) = {} THEN <<s, <<>>, <<>>>>
    ELSE LET i == CHOOSE k \in Occurrences(s, sep) :
                      \A j \in Occurrences(s, sep) : k <= j
         IN  <<SubSeq(s, 1, i - 1), sep, SubSeq(s, i + Len(sep), Len(s))>>

\* Line 16 had it split at the first marker: the tail of partition, and
\* the whole path when there is no marker.
rpartition_at_first(s, sep) ==
    IF Occurrences(s, sep) = {} THEN <<<<>>, <<>>, s>> ELSE partition(s, sep)

\* str.rpartition(sep): s split at the last sep; with no sep in s, two
\* empty strings and s.
rpartition(s, sep) ==
    IF Occurrences(s, sep) = {} THEN <<<<>>, <<>>, s>>
    ELSE LET i == CHOOSE k \in Occurrences(s, sep) :
                      \A j \in Occurrences(s, sep) : j <= k
         IN  <<SubSeq(s, 1, i - 1), sep, SubSeq(s, i + Len(sep), Len(s))>>

\* Lines 16-17.
clean_download_path(path) == rpartition(path, Marker)[3]

\* The path texts given to clean_download_path: the paths of the store, and
\* every text of separators, the name of the download directory and other
\* names.
PathTexts == Paths \cup SeqsUpTo({"/", "download", "x"}, MaxPathLen)

\* A caller calls clean_download_path(path), which returns at once.
call_clean_download_path(p) ==
    /\ pc[p] = "idle"
    /\ UNCHANGED provVars
    /\ ncalls < MaxCalls
    /\ ncalls' = ncalls + 1
    /\ \E path \in PathTexts :
          /\ call' = [call EXCEPT ![p] = CleanDownloadPathArgs(path)]
          /\ prev' = [prev EXCEPT ![p] =
                         Repeated(p, CleanDownloadPathArgs(path))]
          /\ result' = [result EXCEPT ![p] = Path(clean_download_path(path))]
    /\ trace' = [trace EXCEPT ![p] = <<>>]
    /\ effects' = [effects EXCEPT ![p] = <<>>]
    /\ locals' = [locals EXCEPT ![p] = NoLocals]
    /\ frame' = [frame EXCEPT ![p] = NoFrame]
    /\ UNCHANGED <<pc, fs, writes, invoked>>

(***************************************************************************)
(* server/add_target.py: add_app, add_daemons, create_app_dir,             *)
(* create_app_templates, lock_file and main.                               *)
(***************************************************************************)
\* Lines 37-46 with the loop of lines 39-42 lost: the element is appended
\* whether or not the application is there.
add_app_unchecked(elements, name, platform) ==
    Append(elements, Element("app", app_name(name, platform),
                             <<name, " running on ", platform>>))

\* add_target.py:37-46, on the elements of the project file in memory.
add_app(elements, name, platform) ==
    IF \E i \in 1..Len(elements) :
          elements[i]._name = "app" /\ elements[i].name = app_name(name, platform)
    THEN elements
    ELSE Append(elements, Element("app", app_name(name, platform),
                                  <<name, " running on ", platform>>))

\* add_target.py:96-115, on the daemons of the config file in memory.
add_daemons(daemons, name, platform) ==
    LET an == app_name(name, platform)
    IN  IF \E i \in 1..Len(daemons) : daemons[i].cmd = assimilator_cmd(an)
        THEN daemons
        ELSE daemons \o
             <<Daemon(assimilator_cmd(an), <<"killerbeez_assimilator_">> \o an),
               Daemon(validator_cmd(an), <<"sample_trivial_validator_">> \o an)>>

\* Lines 61-62: the name of the application goes into the filename.
new_filename(filename, an) ==
    LET parts == partition(filename, <<".">>)
    IN  parts[1] \o <<".">> \o an \o parts[2] \o parts[3]

\* Lines 59-69: what the loop over skel/<platform> leaves in the version
\* directory, destination -> content.
version_files(an, platform) ==
    LET dest(f) == app_version_dir(an, platform) \o <<"/">> \o
                       (IF f = <<"version", ".", "xml">> THEN f
                        ELSE new_filename(f, an))
    IN  [path \in {dest(f) : f \in SkelFiles} |->
            LET f == CHOOSE g \in SkelFiles : dest(g) = path
            IN  IF f = <<"version", ".", "xml">>
                THEN <<"format">> \o an
                ELSE <<"skel", "/", platform, "/">> \o f]

\* The tree t after the files of new (path -> content) were written: a
\* path that was there is written over.
WriteAll(t, new) ==
    [path \in DOMAIN t \cup DOMAIN new |->
        IF path \notin DOMAIN new THEN t[path]
        ELSE IF path \in DOMAIN t
             THEN [content |-> new[path], writes |-> t[path].writes + 1]
             ELSE Made(new[path])]

\* The run of process p ends, by sys.exit, an exception or the end of
\* main(): its locks are released with its file descriptors.
Exit(p, status) ==
    /\ run' = [run EXCEPT ![p].pc = "exit", ![p].status = status]
    /\ held' = [held EXCEPT ![p] = 0]

\* Where the loop of line 142 goes with the run r.
LoopPc(r) == IF r.i <= Len(r.platforms) THEN "add_app" ELSE "write_project"
\* The platform of this turn of the loop, and its application.
Platform(p) == run[p].platforms[run[p].i]
AppName(p) == app_name(run[p].app, Platform(p))

\* Lines 124-130: a process starts add_target.py app platforms... in the
\* project directory.
call_main(p) ==
    /\ run[p].pc \in {"idle", "exit"}
    /\ nruns < MaxRuns
    /\ nruns' = nruns + 1
    /\ \E app \in Apps, platforms \in PlatformLists :
          run' = [run EXCEPT ![p] =
                     [NoRun EXCEPT !.pc = "lock_file", !.app = app,
                                   !.platforms = platforms]]
    /\ UNCHANGED <<project_xml, config_xml, tree, lockfile, held>>
    /\ UNCHANGED libVars

\* Lines 131-134 and 117-120: the lock file is opened for writing, which
\* creates it when it is not there, and locked without waiting.  When
\* another process holds the lock, lockf raises IOError, which main()
\* answers with a message.
main_lock_file(p) ==
    /\ run[p].pc = "lock_file"
    /\ LET inode == IF lockfile.inode = 0 THEN lockfile.made + 1
                    ELSE lockfile.inode
       IN  /\ lockfile' = [inode |-> inode,
                           made |-> IF lockfile.inode = 0 THEN lockfile.made + 1
                                    ELSE lockfile.made]
           /\ IF \E q \in Procs \ {p} : held[q] = inode
              THEN /\ run' = [run EXCEPT ![p].pc = "read", ![p].locked = FALSE]
                   /\ UNCHANGED held
              ELSE /\ run' = [run EXCEPT ![p].pc = "read", ![p].locked = TRUE]
                   /\ held' = [held EXCEPT ![p] = inode]
    /\ UNCHANGED <<project_xml, config_xml, tree, nruns>>
    /\ UNCHANGED libVars

\* Line 119: the file object is a local of lock_file.  Once lock_file has
\* returned nothing refers to it, and when the interpreter collects it the
\* descriptor is closed and the lock released: at once, later, or never
\* before the process ends.
lock_file_collected(p) ==
    /\ run[p].pc \notin {"idle", "lock_file", "exit"}
    /\ held[p] # 0
    /\ held' = [held EXCEPT ![p] = 0]
    /\ UNCHANGED <<run, project_xml, config_xml, tree, lockfile, nruns>>
    /\ UNCHANGED libVars

\* Lines 136-140: the two files are read into memory.
main_read(p) ==
    /\ run[p].pc = "read"
    /\ run' = [run EXCEPT ![p] =
                  [@ EXCEPT !.project_file = project_xml,
                            !.config_file = config_xml,
                            !.i = 1,
                            !.pc = LoopPc([run[p] EXCEPT !.i = 1])]]
    /\ UNCHANGED <<project_xml, config_xml, tree, lockfile, held, nruns>>
    /\ UNCHANGED libVars

\* Line 144.
main_add_app(p) ==
    /\ run[p].pc = "add_app"
    /\ run' = [run EXCEPT ![p].project_file = add_app(@, run[p].app, Platform(p)),
                          ![p].pc = "create_app_dir"]
    /\ UNCHANGED <<project_xml, config_xml, tree, lockfile, held, nruns>>
    /\ UNCHANGED libVars

\* Line 146 and lines 48-69: when apps/<app_name> is not there, the version
\* directory is made and the skeleton of the platform copied into it; a
\* platform with no skeleton makes os.listdir raise, the directories made.
create_app_dir(p) ==
    /\ run[p].pc = "create_app_dir"
    /\ LET an == AppName(p)
           dirs == (app_dir(an) :> <<"dir">>)
                       @@ (app_version_dir(an, Platform(p)) :> <<"dir">>)
       IN  IF app_dir(an) \in DOMAIN tree
           THEN /\ run' = [run EXCEPT ![p].pc = "create_app_templates"]
                /\ UNCHANGED <<tree, held>>
           ELSE IF Platform(p) \notin Skel
           THEN /\ tree' = WriteAll(tree, dirs)
                /\ Exit(p, "OSError")
           ELSE /\ tree' = WriteAll(WriteAll(tree, dirs),
                                    version_files(an, Platform(p)))
                /\ run' = [run EXCEPT ![p].pc = "create_app_templates"]
                /\ UNCHANGED held
    /\ UNCHANGED <<project_xml, config_xml, lockfile, nruns>>
    /\ UNCHANGED libVars

\* Line 147 and lines 71-93: when neither template is there, both are
\* copied from skel/templates; a platform with no skeleton makes
\* shutil.copyfile raise, nothing copied.
create_app_templates(p) ==
    /\ run[p].pc = "create_app_templates"
    /\ LET an == AppName(p)
           templates ==
               (in_template_path(an) :>
                    <<"skel", "/", "templates", "/", Platform(p), "_", "in">>)
               @@ (out_template_path(an) :>
                    <<"skel", "/", "templates", "/", Platform(p), "_", "out">>)
       IN  IF \/ in_template_path(an) \in DOMAIN tree
              \/ out_template_path(an) \in DOMAIN tree
           THEN /\ run' = [run EXCEPT ![p].pc = "add_daemons"]
                /\ UNCHANGED <<tree, held>>
           ELSE IF Platform(p) \notin Skel
           THEN /\ Exit(p, "OSError")
                /\ UNCHANGED tree
           ELSE /\ tree' = WriteAll(tree, templates)
                /\ run' = [run EXCEPT ![p].pc = "add_daemons"]
                /\ UNCHANGED held
    /\ UNCHANGED <<project_xml, config_xml, lockfile, nruns>>
    /\ UNCHANGED libVars

\* Line 148, and the loop goes on to the next platform.
main_add_daemons(p) ==
    /\ run[p].pc = "add_daemons"
    /\ run' = [run EXCEPT ![p] =
                  [@ EXCEPT !.config_file =
                                add_daemons(@, run[p].app, Platform(p)),
                            !.i = @ + 1,
                            !.pc = LoopPc([run[p] EXCEPT !.i = @ + 1])]]
    /\ UNCHANGED <<project_xml, config_xml, tree, lockfile, held, nruns>>
    /\ UNCHANGED libVars

\* Line 150.
main_write_project(p) ==
    /\ run[p].pc = "write_project"
    /\ project_xml' = run[p].project_file
    /\ run' = [run EXCEPT ![p].pc = "write_config"]
    /\ UNCHANGED <<config_xml, tree, lockfile, held, nruns>>
    /\ UNCHANGED libVars

\* Line 151.
main_write_config(p) ==
    /\ run[p].pc = "write_config"
    /\ config_xml' = run[p].config_file
    /\ run' = [run EXCEPT ![p].pc = "unlink"]
    /\ UNCHANGED <<project_xml, tree, lockfile, held, nruns>>
    /\ UNCHANGED libVars

\* Line 152: os.unlink(lockfile_name), which raises when another process
\* has removed the file already.
main_unlink(p) ==
    /\ run[p].pc = "unlink"
    /\ IF lockfile.inode = 0
       THEN /\ Exit(p, "OSError")
            /\ UNCHANGED lockfile
       ELSE /\ lockfile' = [lockfile EXCEPT !.inode = 0]
            /\ run' = [run EXCEPT ![p].pc = "restart"]
            /\ UNCHANGED held
    /\ UNCHANGED <<project_xml, config_xml, tree, nruns>>
    /\ UNCHANGED libVars

\* Lines 155-162: bin/xadd, bin/stop and bin/start, any of which may fail.
main_restart(p) ==
    /\ run[p].pc = "restart"
    /\ \E status \in {"0", "CalledProcessError"} : Exit(p, status)
    /\ UNCHANGED <<project_xml, config_xml, tree, lockfile, nruns>>
    /\ UNCHANGED libVars

\* One step of main() by process p.
main(p) ==
    \/ main_lock_file(p)
    \/ lock_file_collected(p)
    \/ main_read(p)
    \/ main_add_app(p)
    \/ create_app_dir(p)
    \/ create_app_templates(p)
    \/ main_add_daemons(p)
    \/ main_write_project(p)
    \/ main_write_config(p)
    \/ main_unlink(p)
    \/ main_restart(p)

(***************************************************************************)
(* Concurrent callers of stage_file.                                       *)
(***************************************************************************)
Next ==
    \E p \in Procs :
        \/ call_stage_file(p)
        \/ stage_file(p)

Spec == Init /\ [][Next]_vars

(***************************************************************************)
(* One caller, whose calls follow one another: stage_file and submit_job.  *)
(***************************************************************************)
Caller == CHOOSE p \in Procs : \A q \in Procs : p <= q

NextSeq ==
    \/ call_stage_file(Caller)
    \/ call_submit_job(Caller)
    \/ stage_file(Caller)
    \/ submit_job(Caller)

SpecSeq == Init /\ [][NextSeq]_vars

(***************************************************************************)
(* One caller that stages files and looks them up: stage_file,             *)
(* get_filename and clean_download_path.                                   *)
(***************************************************************************)
NextPath ==
    \/ call_stage_file(Caller)
    \/ stage_file(Caller)
    \/ call_get_filename(Caller)
    \/ get_filename(Caller)
    \/ call_clean_download_path(Caller)

SpecPath == Init /\ [][NextPath]_vars

(***************************************************************************)
(* Processes that run add_target.py on one host at the same time.          *)
(***************************************************************************)
NextTarget ==
    \E p \in Procs :
        \/ call_main(p)
        \/ main(p)

SpecTarget == Init /\ [][NextTarget]_vars

(***************************************************************************)
(* Runs of add_target.py that follow one another.                          *)
(***************************************************************************)
NextTargetSeq ==
    \/ call_main(Caller)
    \/ main(Caller)

SpecTargetSeq == Init /\ [][NextTargetSeq]_vars

TypeOK ==
    /\ \A path \in Paths :
          /\ fs[path].exists \in BOOLEAN
          /\ fs[path].mode \in {"", CreateMode, StagedMode}
          /\ writes[path] \in 0..MaxCalls
    /\ \A p \in Procs :
          /\ pc[p] \in {"idle", "sf_resolve", "sf_exists", "sf_read", "sf_open",
                        "sf_write", "sf_chmod", "sj_validate", "sj_cmdline",
                        "sj_invoke", "sj_parse", "gf_resolve"}
          /\ call[p].op \in {"stage_file", "submit_job", "get_filename",
                              "clean_download_path"}
          /\ frame[p].ctx \in {"", "top", "seed", "cmdline"}
          /\ result[p].kind \in {"none", "ok", "error"}
    /\ ncalls \in 0..MaxCalls
    /\ invoked \in 0..ncalls
    /\ \A p \in Procs :
          /\ run[p].pc \in {"idle", "lock_file", "read", "add_app",
                             "create_app_dir", "create_app_templates",
                             "add_daemons", "write_project", "write_config",
                             "unlink", "restart", "exit"}
          /\ run[p].platforms \in PlatformLists
          /\ held[p] \in 0..lockfile.made
    /\ lockfile.inode \in 0..lockfile.made
    /\ lockfile.made \in 0..MaxRuns
    /\ nruns \in 0..MaxRuns

(***************************************************************************)
(* Vocabulary of the properties.                                           *)
(***************************************************************************)
\* The error kinds of the specification, as the code raises them: a class
\* of lib.errors and the fixed text its message starts with.
ErrorKind(res) ==
    IF res.kind # "error" THEN "none"
    ELSE CASE res.cls = "InternalError" /\ Head(res.msg) = "Attempted to stage "
                -> "ConsistencyError"
           [] res.cls = "InternalError"
                /\ Head(res.msg) \in
                     {"Only one of seed_file and seed_contents can be specified",
                      "No seed specified"}
                -> "ConfigurationError"
           [] res.cls = "CalledProcessError" -> "OracleError"
           [] res.cls = "FileNotFoundError" /\ Head(res.msg) = "bin/dir_hier_path"
                -> "OracleError"
           [] res.cls = "FileNotFoundError" -> "StorageError"
           [] res.cls = "BoincError"
                /\ Head(res.msg) = "create_work returned error: "
                -> "ToolInvocationError"
           [] res.cls = "BoincError"
                /\ Head(res.msg) = "Could not find ID in create_work output: "
                -> "ToolProtocolError"
           [] OTHER -> "unknown"

\* How a call ends when the oracle did not print the path: the error of the
\* run itself, or the error of opening what it printed instead.
OracleFailures == {"OracleError", "StorageError"}
\* The operations that change the store.
Mutations == {"open", "write", "chmod"}
\* How often op occurs in the log eff.
Count(eff, op) == Cardinality({i \in 1..Len(eff) : eff[i] = op})
\* The path a stage_file call resolves to.
CallPath(c) == dir_hier_path(filename_for_contents(c.prefix, c.contents))
\* Caller p has completed a stage_file call, and the call it completed just
\* before was stage_file with the same prefix and contents.
StagedTwice(p) ==
    /\ pc[p] = "idle"
    /\ call[p].op = "stage_file"
    /\ result[p].kind # "none"
    /\ prev[p].call = call[p]
    /\ prev[p].result.kind # "none"

(***************************************************************************)
(* C1.  Staging is idempotent.  One caller stages the same (prefix,        *)
(* content) twice in a row, nothing else touching the store, and the       *)
(* oracle prints the path both times.  Then the second call changes        *)
(* nothing (no open, no write, no chmod) and ends as the first did, with   *)
(* the same path; and when no file was at the path before the first call,  *)
(* both calls succeed and the two calls together make exactly one write.   *)
(***************************************************************************)
C1_StageIdempotent ==
    \A p \in Procs :
        ( /\ StagedTwice(p)
          /\ ErrorKind(prev[p].result) \notin OracleFailures
          /\ ErrorKind(result[p]) \notin OracleFailures )
        => /\ \A i \in 1..Len(effects[p]) : effects[p][i] \notin Mutations
           /\ result[p].kind = prev[p].result.kind
           /\ result[p].path = prev[p].result.path
           /\ "exists:False" \in {prev[p].effects[i] : i \in 1..Len(prev[p].effects)}
                => /\ prev[p].result.kind = "ok"
                   /\ result[p].kind = "ok"
                   /\ result[p].path = CallPath(call[p])
                   /\ Count(prev[p].effects \o effects[p], "write") = 1
                   /\ writes[CallPath(call[p])] = 1
                   /\ fs[CallPath(call[p])] =
                        [exists |-> TRUE, content |-> call[p].contents,
                         mode |-> StagedMode]

\* A fresh (prefix, content) has been staged twice: written by the first
\* call, found by the second.
C1_Witness ==
    \E p \in Procs :
        /\ StagedTwice(p)
        /\ call[p].contents # <<>>
        /\ prev[p].effects = <<"dir_hier_path", "exists:False", "open", "write", "chmod">>
        /\ effects[p] = <<"dir_hier_path", "exists:True", "read">>
        /\ result[p].kind = "ok"

(***************************************************************************)
(* C2.  Write once: after a write to a path has completed, the content of  *)
(* the file at that path never changes again, whatever the interleaving of *)
(* stage_file calls, and whatever a later call of the same fingerprint     *)
(* brings.                                                                 *)
(***************************************************************************)
C2_WriteOnce ==
    [][\A path \in Paths :
          writes[path] >= 1 => fs'[path].content = fs[path].content]_vars

(***************************************************************************)
(* C3.  Writers are serialized per path: no two callers are at the same    *)
(* time on the create-and-write branch (lines 53-55) for the same path,    *)
(* and no path is written more than once.                                  *)
(***************************************************************************)
OnWriteBranch(p) == pc[p] \in {"sf_open", "sf_write", "sf_chmod"}

C3_WritersSerialized ==
    /\ \A p, q \in Procs :
          (p # q /\ OnWriteBranch(p) /\ OnWriteBranch(q))
              => FramePath(p) # FramePath(q)
    /\ \A path \in Paths : writes[path] <= 1

(***************************************************************************)
(* C4.  No partial write is visible: a stage_file call that reads the file *)
(* back while another caller, staging the same (prefix, content), has      *)
(* opened it for writing, reads the complete content and does not end in   *)
(* ConsistencyError.                                                       *)
(***************************************************************************)
\* Caller q has opened the file at its path and has not left stage_file.
Creating(q) == pc[q] \in {"sf_write", "sf_chmod"}

C4_NoPartialRead ==
    [][\A p, q \in Procs :
          ( /\ p # q
            /\ pc[p] = "sf_read"
            /\ pc'[p] # "sf_read"
            /\ Creating(q)
            /\ frame[q].prefix = frame[p].prefix
            /\ frame[q].contents = frame[p].contents )
          => /\ fs[FramePath(p)].content = frame[p].contents
             /\ ErrorKind(result'[p]) # "ConsistencyError"]_vars

(***************************************************************************)
(* C5.  Collision detection: when stage_file reads back an existing file   *)
(* whose bytes differ from the contents it was given, the call ends in     *)
(* ConsistencyError with the filename in the message, returns no path and  *)
(* leaves the store as it is; a call that found the file existing makes no *)
(* change to the store at all.                                             *)
(***************************************************************************)
C5_CollisionDetected ==
    [][\A p \in Procs :
          /\ ( /\ pc[p] = "sf_read"
               /\ pc'[p] # "sf_read"
               /\ fs[FramePath(p)].content # frame[p].contents )
             => /\ pc'[p] = "idle"
                /\ ErrorKind(result'[p]) = "ConsistencyError"
                /\ Contains(result'[p].msg, FrameFilename(p))
                /\ result'[p].path = <<>>
                /\ fs' = fs
                /\ writes' = writes
          /\ ( /\ pc[p] = "sf_read"
               /\ pc'[p] # "sf_read"
               /\ fs[FramePath(p)].content = frame[p].contents )
             => /\ result'[p].kind = "ok"
                /\ result'[p].path = FramePath(p)
                /\ fs' = fs]_vars

\* A call has ended in ConsistencyError, and the file it collided with is
\* still there with its own bytes.
C5_Witness ==
    \E p \in Procs :
        /\ pc[p] = "idle"
        /\ call[p].op = "stage_file"
        /\ ErrorKind(result[p]) = "ConsistencyError"
        /\ effects[p] = <<"dir_hier_path", "exists:True", "read">>
        /\ fs[CallPath(call[p])].exists
        /\ fs[CallPath(call[p])].content # <<>>
        /\ fs[CallPath(call[p])].content # call[p].contents
        /\ writes[CallPath(call[p])] = 1

(***************************************************************************)
(* Vocabulary of the properties of submit_job.                             *)
(***************************************************************************)
BothGiven(c) == c.seed_file.given /\ c.seed_contents.given
NeitherGiven(c) == ~c.seed_file.given /\ ~c.seed_contents.given
\* The seed source is InlineContent(bytes): seed_contents alone was given.
Inline(c) == c.seed_contents.given /\ ~c.seed_file.given

Stages == <<"ValidateSeed", "StageSeed", "StageCmdline", "InvokeTool", "ParseOutput">>
StageIndex(s) == CHOOSE i \in 1..Len(Stages) : Stages[i] = s
Elems(seq) == {seq[i] : i \in 1..Len(seq)}
Last(seq) == seq[Len(seq)]

\* Caller p has completed a submit_job call in which bin/create_work ran.
ToolRan(p) ==
    /\ pc[p] = "idle"
    /\ call[p].op = "submit_job"
    /\ "create_work" \in Elems(effects[p])

\* The lines of the output of the tool in the call of p, and the positions
\* of those that match the pattern.
OutputLines(p) == splitlines(locals[p].output)
Matching(lines) == {i \in 1..Len(lines) : re_match(lines[i])}

\* The message msg shows every line of the output out.
Carries(msg, out) ==
    \A i \in 1..Len(splitlines(out)) : Contains(msg, splitlines(out)[i])

(***************************************************************************)
(* C6.  The seed forms exclude each other: a submit_job call given both    *)
(* seed_file and seed_contents, or neither, ends at the validation in      *)
(* ConfigurationError, with one message for "both" and another for         *)
(* "neither", having run no oracle, touched no file and run no tool.       *)
(***************************************************************************)
C6_SeedFormsExclusive ==
    \A p \in Procs :
        ( /\ call[p].op = "submit_job"
          /\ pc[p] # "sj_validate"
          /\ BothGiven(call[p]) \/ NeitherGiven(call[p]) )
        => /\ pc[p] = "idle"
           /\ ErrorKind(result[p]) = "ConfigurationError"
           /\ effects[p] = <<>>
           /\ BothGiven(call[p]) =>
                result[p].msg =
                    <<"Only one of seed_file and seed_contents can be specified">>
           /\ NeitherGiven(call[p]) => result[p].msg = <<"No seed specified">>

(***************************************************************************)
(* C7.  The stages of a submit_job call: ValidateSeed, StageSeed (for an   *)
(* inline seed), StageCmdline, InvokeTool, ParseOutput are entered in that *)
(* order, each at most once; the call has no result before it ends and one *)
(* when it has ended; bin/create_work runs at most once, as the last thing *)
(* the call does outside the process, and only when the command line (and  *)
(* an inline seed) has been staged; a call that fails stops in the stage   *)
(* that failed.                                                            *)
(***************************************************************************)
C7_StagesInOrder ==
    \A p \in Procs :
        call[p].op = "submit_job" =>
            LET c == call[p]
                tr == trace[p]
                eff == effects[p]
                cmdpath == dir_hier_path(
                    filename_for_contents("cmdline", encode_utf8(c.cmdline)))
                seedpath == dir_hier_path(
                    filename_for_contents("input", c.seed_contents.val))
                kind == ErrorKind(result[p])
            IN  /\ tr # <<>> /\ tr[1] = "ValidateSeed"
                /\ Elems(tr) \subseteq Elems(Stages)
                /\ \A i \in 1..(Len(tr) - 1) :
                      StageIndex(tr[i]) < StageIndex(tr[i + 1])
                /\ Inline(c) /\ "StageCmdline" \in Elems(tr)
                      => "StageSeed" \in Elems(tr)
                /\ pc[p] # "idle" => result[p] = NoResult
                /\ pc[p] = "idle" => result[p].kind \in {"ok", "error"}
                /\ Count(eff, "create_work") <= 1
                /\ "create_work" \in Elems(eff) =>
                      /\ Last(eff) = "create_work"
                      /\ Last(tr) \in {"InvokeTool", "ParseOutput"}
                      /\ "StageCmdline" \in Elems(tr)
                      /\ fs[cmdpath].exists
                      /\ locals[p].cmd_file = Basename(cmdpath)
                      /\ Inline(c) =>
                            /\ fs[seedpath].exists
                            /\ locals[p].seed_file = seedpath
                /\ pc[p] = "idle" /\ result[p].kind = "ok" =>
                      /\ Elems(tr) \in {Elems(Stages), Elems(Stages) \ {"StageSeed"}}
                      /\ "create_work" \in Elems(eff)
                      /\ result[p].id >= 0
                /\ pc[p] = "idle" /\ result[p].kind = "error" =>
                      /\ kind # "unknown"
                      /\ kind = "ConfigurationError" =>
                            tr = <<"ValidateSeed">> /\ eff = <<>>
                      /\ kind \in {"ConsistencyError"} \cup OracleFailures =>
                            /\ Last(tr) \in {"StageSeed", "StageCmdline"}
                            /\ "create_work" \notin Elems(eff)
                      /\ kind = "ToolInvocationError" => Last(tr) = "InvokeTool"
                      /\ kind = "ToolProtocolError" => Last(tr) = "ParseOutput"

\* A call with an inline seed has gone through all five stages and has
\* returned an id.
C7_Witness ==
    \E p \in Procs :
        /\ ToolRan(p)
        /\ Inline(call[p])
        /\ trace[p] = Stages
        /\ result[p].kind = "ok"
        /\ effects[p] = <<"dir_hier_path", "exists:False", "open", "write", "chmod",
                          "dir_hier_path", "exists:False", "open", "write", "chmod",
                          "create_work">>

(***************************************************************************)
(* C8.  First match wins: when bin/create_work exits zero and some line of *)
(* its output matches `created workunit; .*, ID ([0-9]+)`, submit_job      *)
(* returns the number of the first such line, whatever lines come before   *)
(* or after it.                                                            *)
(***************************************************************************)
C8_FirstMatchWins ==
    \A p \in Procs :
        ( /\ ToolRan(p)
          /\ locals[p].returncode = 0
          /\ Matching(OutputLines(p)) # {} )
        => LET lines == OutputLines(p)
               first == CHOOSE i \in Matching(lines) :
                            \A j \in Matching(lines) : i <= j
           IN  /\ result[p] = WorkUnitID(int(match_group(lines[first])))
               /\ lines[first] = Line42 => result[p].id = 42
               /\ lines[first] = Line7 => result[p].id = 7

\* The tool printed the line of id 42 and then the line of id 7, and
\* submit_job returned 42.
C8_Witness ==
    \E p \in Procs :
        /\ ToolRan(p)
        /\ locals[p].returncode = 0
        /\ OutputLines(p) \in {<<Line42, Line7>>, <<LineNone, Line42>>}
        /\ result[p].id = 42

(***************************************************************************)
(* C9.  Tool failure: when bin/create_work exits non-zero, submit_job ends *)
(* in ToolInvocationError whose message shows the captured output, and     *)
(* returns no id, also when a line of the output matches the pattern.      *)
(***************************************************************************)
C9_ToolFailure ==
    \A p \in Procs :
        (ToolRan(p) /\ locals[p].returncode # 0)
        => /\ result[p].kind = "error"
           /\ ErrorKind(result[p]) = "ToolInvocationError"
           /\ Carries(result[p].msg, locals[p].output)
           /\ Len(result[p].msg) >= Len(locals[p].output) + 1
           /\ result[p].id = -1
           /\ trace[p][Len(trace[p])] = "InvokeTool"

\* The tool exited non-zero having printed a line that matches, and the
\* call ended in the error.
C9_Witness ==
    \E p \in Procs :
        /\ ToolRan(p)
        /\ locals[p].returncode # 0
        /\ Matching(OutputLines(p)) # {}
        /\ ErrorKind(result[p]) = "ToolInvocationError"

(***************************************************************************)
(* C10.  Protocol violation: when bin/create_work exits zero and no line   *)
(* of its output matches the pattern, submit_job ends in ToolProtocolError *)
(* whose message shows the whole output, and that error is none of the     *)
(* errors a non-zero exit raises.                                          *)
(***************************************************************************)
C10_ProtocolViolation ==
    \A p \in Procs :
        ( /\ ToolRan(p)
          /\ locals[p].returncode = 0
          /\ Matching(OutputLines(p)) = {} )
        => /\ result[p].kind = "error"
           /\ ErrorKind(result[p]) = "ToolProtocolError"
           /\ ErrorKind(result[p]) # "ToolInvocationError"
           /\ Carries(result[p].msg, locals[p].output)
           /\ Len(result[p].msg) >= Len(locals[p].output) + 1
           /\ \A out \in ToolOutputs :
                 result[p] # Exception("BoincError",
                                <<"create_work returned error: ">> \o repr(out))

\* The tool exited zero having printed lines of which none matches, and
\* the call ended in the error.
C10_Witness ==
    \E p \in Procs :
        /\ ToolRan(p)
        /\ locals[p].returncode = 0
        /\ Len(OutputLines(p)) = 2
        /\ Matching(OutputLines(p)) = {}
        /\ ErrorKind(result[p]) = "ToolProtocolError"

(***************************************************************************)
(* C11.  Retry semantics.  A call that repeats, with the same arguments,   *)
(* the successful call its caller has just completed changes nothing in    *)
(* the store: no file appears, none changes, none is written.  A repeated  *)
(* submit_job that succeeds again has run bin/create_work once more: the   *)
(* tool has run once in each of the two calls, twice in all.               *)
(***************************************************************************)
\* Caller p is inside a call that repeats the successful call before it.
Retrying(p) ==
    /\ pc[p] # "idle"
    /\ prev[p].call = call[p]
    /\ prev[p].result.kind = "ok"

C11_RetrySemantics ==
    [][\A p \in Procs :
          Retrying(p) =>
              /\ fs' = fs
              /\ writes' = writes
              /\ ( /\ call[p].op = "submit_job"
                   /\ pc'[p] = "idle"
                   /\ result'[p].kind = "ok" )
                 => /\ Count(prev[p].effects, "create_work") = 1
                    /\ Count(effects'[p], "create_work") = 1
                    /\ invoked' >= 2]_vars

\* A submit_job call with an inline seed has succeeded twice in a row: the
\* tool has run twice and the two staged files were written once each.
C11_Witness ==
    \E p \in Procs :
        /\ ToolRan(p)
        /\ Inline(call[p])
        /\ prev[p].call = call[p]
        /\ prev[p].result.kind = "ok"
        /\ result[p].kind = "ok"
        /\ invoked = 2
        /\ Cardinality({path \in Paths : fs[path].exists}) = 2
        /\ \A path \in Paths : fs[path].exists => writes[path] = 1

(***************************************************************************)
(* C12.  No cleanup and no deletion.  A file that a call has staged (a     *)
(* stage_file call that returned its path, or a staging that a submit_job  *)
(* call has completed) is there in every later state, with the same        *)
(* content; when the submit_job call then ends in an error, its staged     *)
(* files still hold the bytes that were staged.                            *)
(***************************************************************************)
\* The path of the command-line file of a submit_job call.
CmdPath(c) ==
    dir_hier_path(filename_for_contents("cmdline", encode_utf8(c.cmdline)))
\* The paths that the current (or last) call of caller p has staged.
Staged(p) ==
    IF call[p].op = "stage_file"
    THEN IF pc[p] = "idle" /\ result[p].kind = "ok" THEN {result[p].path} ELSE {}
    ELSE (IF {"StageSeed", "StageCmdline"} \subseteq Elems(trace[p])
          THEN {locals[p].seed_file} ELSE {})
         \cup (IF "InvokeTool" \in Elems(trace[p]) THEN {CmdPath(call[p])} ELSE {})

C12_NoCleanup ==
    [][\A p \in Procs : \A path \in Staged(p) :
          /\ fs[path].exists
          /\ fs'[path].exists
          /\ fs'[path].content = fs[path].content
          /\ (call[p].op = "submit_job" /\ pc'[p] = "idle"
                /\ result'[p].kind = "error")
             => /\ path = CmdPath(call[p])
                   => fs'[path].content = encode_utf8(call[p].cmdline)
                /\ path # CmdPath(call[p])
                   => fs'[path].content = call[p].seed_contents.val]_vars

(***************************************************************************)
(* C13.  Round trip of the naming scheme, as stated: get_filename(prefix,  *)
(* md5(content)) is the filename '{prefix}_{md5 hex}' that stage_file      *)
(* derives for (prefix, content), and get_filename is pure: it does        *)
(* nothing outside the process.                                            *)
(***************************************************************************)
\* Caller p has completed a get_filename call.
Looked(p) ==
    /\ pc[p] = "idle"
    /\ call[p].op = "get_filename"
    /\ result[p].kind # "none"
\* The contents whose digest the call of p was given.
ContentsOf(hash) == {c \in Contents : md5_hexdigest(c) = hash}

C13_FilenameRoundTrip ==
    \A p \in Procs :
        (Looked(p) /\ result[p].kind = "ok" /\ result[p].path \in Paths)
        => /\ effects[p] = <<>>
           /\ \A c \in ContentsOf(call[p].hash) :
                 result[p].path = filename_for_contents(call[p].prefix, c)

(***************************************************************************)
(* C13, amended.  get_filename(prefix, md5(content)) runs the oracle once  *)
(* on the filename '{prefix}_{md5 hex}' that stage_file derives for        *)
(* (prefix, content) and returns what the oracle printed, stripped: when   *)
(* the oracle prints the path, the absolute path that stage_file(prefix,   *)
(* content) returns, whose basename is that filename.  It raises when the  *)
(* oracle fails, and it changes no file.                                   *)
(***************************************************************************)
C13_PathRoundTrip ==
    [][\A p \in Procs :
          (pc[p] = "gf_resolve" /\ pc'[p] = "idle") =>
              /\ effects'[p] = <<"dir_hier_path">>
              /\ fs' = fs
              /\ writes' = writes
              /\ result'[p].kind \in {"ok", "error"}
              /\ result'[p].kind = "error" =>
                    ErrorKind(result'[p]) = "OracleError"
              /\ result'[p].kind = "ok" =>
                    \A c \in ContentsOf(call[p].hash) :
                        LET filename == filename_for_contents(call[p].prefix, c)
                            path == result'[p].path
                        IN  /\ \E o \in OracleReturns :
                                  path = Strip(check_output(filename, o))
                            /\ path \in Paths =>
                                  /\ path = CallPath(StageArgs(call[p].prefix, c))
                                  /\ Basename(path) = filename
                                  /\ path # filename]_vars

\* get_filename has returned the path of the store for the digest of a
\* content, where stage_file has put a file of that digest.
C13_Witness ==
    \E p \in Procs :
        /\ Looked(p)
        /\ result[p].kind = "ok"
        /\ result[p].path \in Paths
        /\ ContentsOf(call[p].hash) # {}
        /\ fs[result[p].path].exists
        /\ md5_hexdigest(fs[result[p].path].content) = call[p].hash

(***************************************************************************)
(* C14.  Runs of add_target.py exclude one another: at most one process is *)
(* between taking the lock and removing the lock file, the section that    *)
(* reads, edits and writes project.xml and config.xml and creates the      *)
(* application directories and templates; and a process that did not get   *)
(* the lock is never in that section.                                      *)
(***************************************************************************)
InSection(p) ==
    run[p].pc \in {"read", "add_app", "create_app_dir", "create_app_templates",
                   "add_daemons", "write_project", "write_config", "unlink"}

C14_RunsExclusive ==
    /\ \A p, q \in Procs : (InSection(p) /\ InSection(q)) => p = q
    /\ \A p \in Procs : InSection(p) => run[p].locked

(***************************************************************************)
(* C15.  The output of the oracle is validated: when bin/dir_hier_path     *)
(* cannot be run, exits non-zero, or prints something that is not exactly  *)
(* one line usable as a path (nothing, or more than one line), the         *)
(* resolution fails with OracleError, and stage_file makes no existence    *)
(* check, opens nothing and writes nothing.                                *)
(***************************************************************************)
\* Exactly one line usable as a path.
OneLine(path) == path # <<>> /\ "\n" \notin Elems(path)

C15_OracleOutputValidated ==
    \A p \in Procs :
        /\ pc[p] \in {"sf_exists", "sf_read", "sf_open", "sf_write", "sf_chmod"}
              => OneLine(FramePath(p))
        /\ (pc[p] = "idle" /\ ErrorKind(result[p]) \in OracleFailures)
              => /\ ErrorKind(result[p]) = "OracleError"
                 /\ Last(effects[p]) = "dir_hier_path"

(***************************************************************************)
(* C16.  clean_download_path: for a path that holds the marker             *)
(* '/download/', the result is what follows a marker in the path, all up   *)
(* to and with that marker removed, and holds no marker itself; for a path *)
(* with no marker the result is the path as it was given; no error is      *)
(* raised either way.                                                      *)
(***************************************************************************)
\* Caller p has called clean_download_path.
Cleaned(p) == call[p].op = "clean_download_path" /\ result[p].kind # "none"

C16_CleanDownloadPath ==
    \A p \in Procs :
        Cleaned(p) =>
            LET path == call[p].path
                relpath == result[p].path
                cut == Len(path) - Len(relpath)
            IN  /\ result[p].kind = "ok"
                /\ Contains(path, Marker) =>
                      /\ ~Contains(relpath, Marker)
                      /\ cut >= Len(Marker)
                      /\ relpath = SubSeq(path, cut + 1, Len(path))
                      /\ SubSeq(path, cut - Len(Marker) + 1, cut) = Marker
                /\ ~Contains(path, Marker) => relpath = path

\* A path with two markers was given, and what follows the second was
\* returned.
C16_Witness ==
    \E p \in Procs :
        /\ Cleaned(p)
        /\ call[p].path = Marker \o Marker
        /\ result[p].path = <<>>

(***************************************************************************)
(* C17.  The seed source.  A submit_job call given seed_contents alone,    *)
(* whatever the bytes and also when they are none, stages them under the   *)
(* prefix 'input' and passes the path of that file to bin/create_work; a   *)
(* call given seed_file alone passes that path as it is and stages no      *)
(* seed; which form is present is a matter of what was given, not of its   *)
(* being empty, so a call with inline bytes, or with a path, does not end  *)
(* in ConfigurationError.                                                  *)
(***************************************************************************)
\* The seed source is StagedPath(path): seed_file alone was given.
StagedPath(c) == c.seed_file.given /\ ~c.seed_contents.given
\* The seed path among the arguments of bin/create_work (line 81).
SeedArg(p) == locals[p].create_work_args[5]

C17_SeedSource ==
    \A p \in Procs :
        (call[p].op = "submit_job" /\ pc[p] # "sj_validate") =>
            LET c == call[p]
            IN  /\ (Inline(c) \/ (StagedPath(c) /\ c.seed_file.val # <<>>))
                      => ErrorKind(result[p]) # "ConfigurationError"
                /\ Inline(c) =>
                      /\ "StageSeed" \in Elems(trace[p])
                      /\ "create_work" \in Elems(effects[p]) =>
                            SeedArg(p) = CallPath(StageArgs("input",
                                                            c.seed_contents.val))
                /\ StagedPath(c) =>
                      /\ "StageSeed" \notin Elems(trace[p])
                      /\ "create_work" \in Elems(effects[p]) =>
                            SeedArg(p) = c.seed_file.val

(***************************************************************************)
(* C18.  Distinct paths are independent.  A step of a stage_file call      *)
(* changes at most the file at the path the call resolved, and no other    *)
(* file of the store.  And when the callers, each making one call on the   *)
(* empty store at the same time, resolve paths that differ from one        *)
(* another, every call ends as it does when it runs alone: with its path,  *)
(* having found no file and written once, the file holding its contents    *)
(* with the mode 0o755; or, the oracle having printed no path, with the    *)
(* error it then ends in alone.                                            *)
(***************************************************************************)
\* Caller p has made a call, and has the path of it resolved.
Called(p) == call[p] # NoCall
Resolved(p) == Called(p) /\ pc[p] # "sf_resolve"
\* Every caller has made one call at most, and the paths resolved so far
\* by the others differ from the path of p.
AloneOnPath(p) ==
    /\ ncalls = Cardinality({q \in Procs : Called(q)})
    /\ \A q \in Procs \ {p} : Resolved(q) => FramePath(q) # FramePath(p)

C18_DistinctPathsIndependent ==
    /\ [][\A path \in Paths :
             fs'[path] # fs[path] =>
                 \E p \in Procs :
                     /\ pc'[p] # pc[p]
                     /\ FramePath(p) = path
                     /\ \A other \in Paths \ {path} :
                           /\ fs'[other] = fs[other]
                           /\ writes'[other] = writes[other]]_vars
    /\ [](\A p \in Procs :
            ( /\ pc[p] = "idle"
              /\ call[p].op = "stage_file"
              /\ result[p].kind # "none"
              /\ AloneOnPath(p) )
            => IF ErrorKind(result[p]) = "OracleError"
               THEN effects[p] = <<"dir_hier_path">>
               ELSE IF FramePath(p) \in Paths
               THEN /\ result[p] = Path(CallPath(call[p]))
                    /\ effects[p] = <<"dir_hier_path", "exists:False", "open",
                                      "write", "chmod">>
                    /\ writes[FramePath(p)] = 1
                    /\ fs[FramePath(p)] =
                          [exists |-> TRUE, content |-> call[p].contents,
                           mode |-> StagedMode]
               ELSE /\ ErrorKind(result[p]) = "StorageError"
                    /\ effects[p] = <<"dir_hier_path", "exists:False",
                                      "open:FileNotFoundError">>)

\* Two callers have each staged a file, at two paths, one call each: both
\* have their path and both files hold what was staged.
C18_Witness ==
    \E p, q \in Procs :
        /\ p # q
        /\ AloneOnPath(p) /\ AloneOnPath(q)
        /\ pc[p] = "idle" /\ pc[q] = "idle"
        /\ result[p].kind = "ok" /\ result[q].kind = "ok"
        /\ result[p].path # result[q].path
        /\ md5_hexdigest(call[p].contents) = md5_hexdigest(call[q].contents)
        /\ fs[result[p].path].content = call[p].contents
        /\ fs[result[q].path].content = call[q].contents

(***************************************************************************)
(* C19.  Provisioning is idempotent per (app, platform).  After any runs   *)
(* of add_target.py that follow one another, project.xml holds at most one *)
(* app element named '{name}_{platform}' and config.xml at most one        *)
(* assimilator daemon and one validator daemon of that application; a run  *)
(* only appends to the two files, and appends no app and no daemon that is *)
(* there already; and no run writes over or removes anything that is there *)
(* under apps/ or templates/.                                              *)
(***************************************************************************)
\* How many app elements of the name an the elements hold, and how many
\* daemons of the command cmd the daemons hold.
CountApps(elements, an) ==
    Cardinality({i \in 1..Len(elements) :
                    elements[i]._name = "app" /\ elements[i].name = an})
CountDaemons(daemons, cmd) ==
    Cardinality({i \in 1..Len(daemons) : daemons[i].cmd = cmd})
\* new is old with elements appended, none of which old holds.
AppendsOnlyNew(old, new) ==
    /\ Len(old) <= Len(new)
    /\ SubSeq(new, 1, Len(old)) = old
    /\ \A i \in (Len(old) + 1)..Len(new) :
          \A j \in 1..Len(new) : new[j] = new[i] => j = i

C19_ProvisioningIdempotent ==
    /\ [](\A an \in AppNames :
            /\ CountApps(project_xml, an) <= 1
            /\ CountDaemons(config_xml, assimilator_cmd(an)) <= 1
            /\ CountDaemons(config_xml, validator_cmd(an)) <= 1
            /\ CountDaemons(config_xml, validator_cmd(an)) =
                  CountDaemons(config_xml, assimilator_cmd(an)))
    /\ [][/\ AppendsOnlyNew(project_xml, project_xml')
          /\ AppendsOnlyNew(config_xml, config_xml')
          /\ \A path \in DOMAIN tree :
                path \in DOMAIN tree' /\ tree'[path] = tree[path]]_vars

\* A second run names a platform whose application the first has
\* registered and installed: add_app has added nothing in memory, and the
\* directory and the templates of the first run are there.
C19_Witness ==
    \E p \in Procs :
        /\ nruns = 2
        /\ run[p].pc = "create_app_dir"
        /\ run[p].i = 1
        /\ CountApps(project_xml, AppName(p)) = 1
        /\ CountDaemons(config_xml, assimilator_cmd(AppName(p))) = 1
        /\ run[p].project_file = project_xml
        /\ app_dir(AppName(p)) \in DOMAIN tree
        /\ in_template_path(AppName(p)) \in DOMAIN tree

=============================================================================
